---- MODULE Spec2Model ----
(***************************************************************************)
(* Online training with the averaged perceptron:                           *)
(* lib/crf/src/train_averaged_perceptron.c, crf_train_averaged_perceptron. *)
(*                                                                         *)
(* One call of the trainer is modelled as a sequential process.  floatval_t*)
(* values are modelled as exact rationals <<num, den>> (den > 0, lowest    *)
(* terms); rounding of IEEE doubles is not modelled.  The decoder          *)
(* (batch->tag) is an arbitrary function of its inputs: every call may     *)
(* return any label sequence.  The feature oracle (batch->enum_features)   *)
(* visits, for the item at position t carrying label y, the feature y with *)
(* value t.  calloc may fail for any subset of the five buffers.           *)
(***************************************************************************)
EXTENDS Integers, Sequences, FiniteSets, TLC

\* ---- bound of the model -------------------------------------------------
\* The largest ap.max_iterations tried.
MaxIter == 2

\* ---- input domains ------------------------------------------------------
\* Batches of 0, 1 or 2 instances of 1 or 2 items each, over two labels.
InstanceCounts == 0 .. 2
ItemCounts == 1 .. 2
Labels == {0, 1}
Features == Labels
Buffers == {"perm", "w", "ws", "wa", "viterbi"}
IterValues == {-1} \cup (0 .. MaxIter)
EpsValues == {<<0, 1>>, <<1, 2>>, <<2, 1>>}

\* ---- floatval_t as exact rationals --------------------------------------
Abs(x) == IF x < 0 THEN -x ELSE x

RECURSIVE GCD(_, _)
GCD(a, b) == IF b = 0 THEN a ELSE GCD(b, a % b)

Rat(n, d) ==
    LET s == IF d < 0 THEN -1 ELSE 1
        g == GCD(Abs(n), Abs(d))
    IN  <<(s * n) \div g, (s * d) \div g>>

RatOfInt(x) == <<x, 1>>
RatAdd(a, b) == Rat(a[1] * b[2] + b[1] * a[2], a[2] * b[2])
RatSub(a, b) == Rat(a[1] * b[2] - b[1] * a[2], a[2] * b[2])
RatMul(a, b) == Rat(a[1] * b[1], a[2] * b[2])
RatLess(a, b) == a[1] * b[2] < b[1] * a[2]

ZeroVec == [f \in Features |-> 0]
ZeroRatVec == [f \in Features |-> RatOfInt(0)]

\* ---- the training batch (crf_train_data_t) ------------------------------
\* An instance: num_items and the gold labels of its items (1-based).
Instances ==
    UNION {[num_items : {L}, labels : [1 .. L -> Labels]] : L \in ItemCounts}

\* A batch: seqs[0 .. N-1], num_features K, cap_items T (the longest instance
\* the batch may hold).
Batches ==
    UNION {[num_instances : {num}, seqs : [0 .. num - 1 -> Instances],
            num_features : {Cardinality(Features)},
            cap_items : {CHOOSE m \in ItemCounts : \A x \in ItemCounts : x <= m}]
           : num \in InstanceCounts}

\* mt_shuffle(perm, N, 1): perm becomes some permutation of 0 .. N-1.
mt_shuffle(num) ==
    {p \in [0 .. num - 1 -> 0 .. num - 1] :
        \A a, b \in 0 .. num - 1 : p[a] = p[b] => a = b}

VARIABLES
    batch,      \* the training data, borrowed from the caller
    opt,        \* option_t: max_iterations, epsilon
    pc,         \* position of the call
    heap,       \* per buffer: "none" (not yet requested), "null", "live", "freed"
    frees,      \* per buffer: number of free() calls on a non-null pointer
    ret,        \* the status to be returned
    ptr_w,      \* the out-parameter: "unset" or the returned vector
    i, n, c,    \* epoch index, position in the epoch, update counter
    perm, viterbi,
    w, ws, wa,
    loss,
    \* observation of the run
    epochs,     \* epochs started
    processed,  \* instances processed in total
    decodes,    \* calls of batch->tag
    enums,      \* calls of batch->enum_features
    shuffles,   \* calls of mt_shuffle
    lastd,      \* d of the instance processed last
    everWrong,  \* some decode differed from the gold labels
    allWrong,   \* every decode so far differed from the gold labels
    snapshots,  \* naive model: sum of w_0 .. w_k over all instances so far
    lossHist,   \* loss of every finished epoch
    broke,      \* the convergence test ended the loop
    decoded,    \* instance indices handed to batch->tag in the current epoch
    preds,      \* the label sequences batch->tag returned for them
    tagW,       \* the weight vector handed to batch->tag last
    applied     \* naive model: sum of gold - predicted feature values of all mistakes

vars == <<batch, opt, pc, heap, frees, ret, ptr_w, i, n, c, perm, viterbi,
          w, ws, wa, loss, epochs, processed, decodes, enums, shuffles, lastd,
          everWrong, allWrong, snapshots, lossHist, broke, decoded, preds, tagW,
          applied>>

obsvars == <<epochs, processed, decodes, enums, shuffles, lastd, everWrong,
             allWrong, snapshots, lossHist, broke, decoded, preds, tagW, applied>>

N == batch.num_instances
K == batch.num_features
T == batch.cap_items

Init ==
    /\ batch \in Batches
    /\ opt \in [max_iterations : IterValues, epsilon : EpsValues]
    /\ pc = "start"
    /\ heap = [b \in Buffers |-> "none"]
    /\ frees = [b \in Buffers |-> 0]
    /\ ret = "0"
    /\ ptr_w = "unset"
    /\ i = 0 /\ n = 0 /\ c = 0
    /\ perm = <<>>
    /\ viterbi = <<>>
    /\ w = ZeroVec /\ ws = ZeroVec /\ wa = ZeroRatVec
    /\ loss = RatOfInt(0)
    /\ epochs = 0 /\ processed = 0 /\ decodes = 0 /\ enums = 0 /\ shuffles = 0
    /\ lastd = 0
    /\ everWrong = FALSE /\ allWrong = TRUE
    /\ snapshots = ZeroVec
    /\ lossHist = <<>>
    /\ broke = FALSE
    /\ decoded = <<>>
    /\ preds = <<>>
    /\ tagW = ZeroRatVec
    /\ applied = ZeroVec

\* free(p): a no-op on NULL, otherwise releases the block.
Free(h, b) == IF h[b] = "live" THEN [h EXCEPT ![b] = "freed"] ELSE h
FreeCount(h, fr, b) == IF h[b] = "null" THEN fr ELSE [fr EXCEPT ![b] = @ + 1]

RECURSIVE FreeAll(_, _)
FreeAll(st, bs) ==
    IF bs = <<>> THEN st
    ELSE FreeAll([heap |-> Free(st.heap, Head(bs)),
                  frees |-> FreeCount(st.heap, st.frees, Head(bs))], Tail(bs))

\* Lines 127-146: the five calloc calls and the NULL test; c = 1 on success.
Allocate ==
    /\ pc = "start"
    /\ \E failed \in SUBSET Buffers :
         /\ heap' = [b \in Buffers |-> IF b \in failed THEN "null" ELSE "live"]
         /\ IF failed # {}
            THEN /\ ret' = "CRFERR_OUTOFMEMORY"
                 /\ pc' = "error_exit"
                 /\ UNCHANGED <<c, perm, viterbi>>
            ELSE /\ ret' = ret
                 /\ pc' = "loop"
                 /\ c' = 1
                 /\ perm' = [k \in 0 .. N - 1 |-> 0]
                 /\ viterbi' = [k \in 1 .. T |-> 0]
    /\ UNCHANGED <<batch, opt, frees, ptr_w, i, n, w, ws, wa, loss, obsvars>>

ErrorExitFreesNoWa == <<"viterbi", "ws", "w", "perm">>

\* Lines 220-224: the buffers released at error_exit, in order.
ErrorExitFrees == <<"viterbi", "wa", "ws", "w", "perm">>

ReturnFreesWithWa == <<"viterbi", "wa", "ws", "w", "perm">>

\* Lines 211-214: the buffers released on normal completion, in order.
ReturnFrees == <<"viterbi", "ws", "w", "perm">>

\* Lines 218-225: error_exit.
ErrorExit ==
    /\ pc = "error_exit"
    /\ LET st == FreeAll([heap |-> heap, frees |-> frees], ErrorExitFrees)
       IN  heap' = st.heap /\ frees' = st.frees
    /\ pc' = "done"
    /\ UNCHANGED <<batch, opt, ret, ptr_w, i, n, c, perm, viterbi, w, ws, wa,
                   loss, obsvars>>

update_weightsSwapped(ud, fid, value) ==
    [ud EXCEPT !.w[fid] = @ + ud.cs * value, !.ws[fid] = @ + ud.c * value]

\* Lines 78-83: update_weights, the callback handed to the feature oracle.
update_weights(ud, fid, value) ==
    [ud EXCEPT !.w[fid] = @ + ud.c * value, !.ws[fid] = @ + ud.cs * value]

RECURSIVE diffSkipFirst(_, _, _)
diffSkipFirst(x, y, len) ==
    IF len <= 1 THEN 0
    ELSE diffSkipFirst(x, y, len - 1) + (IF x[len] # y[len] THEN 1 ELSE 0)

\* Lines 85-94: diff, the number of positions 1 .. len at which x and y differ.
RECURSIVE diff(_, _, _)
diff(x, y, len) ==
    IF len = 0 THEN 0
    ELSE diff(x, y, len - 1) + (IF x[len] # y[len] THEN 1 ELSE 0)

\* batch->enum_features(batch, seq, labels, update_weights, &ud): the item at
\* position t with label labels[t] activates feature labels[t] with value t.
RECURSIVE enum_features(_, _, _, _)
enum_features(seq, labels, ud, t) ==
    IF t > seq.num_items THEN ud
    ELSE enum_features(seq, labels, update_weights(ud, labels[t], t), t + 1)

\* batch->tag(batch, w, seq, viterbi, &score): the possible contents of the
\* decode buffer afterwards; entries beyond num_items keep their old value.
tag(seq, vit) ==
    {[k \in 1 .. T |-> IF k <= seq.num_items THEN p[k] ELSE vit[k]] :
        p \in [1 .. seq.num_items -> Labels]}

\* vecmath.h: veccopy(dst, src, K) and vecasub(dst, a, src, K): dst -= a * src.
veccopy(src) == [f \in Features |-> RatOfInt(src[f])]
vecasub(dst, a, src) ==
    [f \in Features |-> RatSub(dst[f], RatMul(a, RatOfInt(src[f])))]

AvgScalePlusOne(cnt) == Rat(1, cnt + 1)

\* Line 191: the scalar 1./c.
AvgScale(cnt) == Rat(1, cnt)

UpdateOnMistakeSign(seq, vit, cnt) ==
    LET gold == enum_features(seq, seq.labels,
                    [w |-> w, ws |-> ws, c |-> 1, cs |-> cnt], 1)
    IN  enum_features(seq, vit, [gold EXCEPT !.c = -1, !.cs = cnt], 1)

\* Lines 170-180: the two passes of the feature oracle on a mistake.
UpdateOnMistake(seq, vit, cnt) ==
    LET gold == enum_features(seq, seq.labels,
                    [w |-> w, ws |-> ws, c |-> 1, cs |-> cnt], 1)
    IN  enum_features(seq, vit, [gold EXCEPT !.c = -1, !.cs = -cnt], 1)

IsMistakeOrEqual(d) == 0 <= d

\* Line 165: the guard of the update.
IsMistake(d) == 0 < d

AdvanceCounterOnMistake(cnt, d) == IF 0 < d THEN cnt + 1 ELSE cnt

\* Line 186: ++c, after the if block: executed for every instance.
AdvanceCounter(cnt, d) == cnt + 1

LoopCondInclusive(it, max) == it <= max

LoopCondDoWhile(it, max) == it = 0 \/ it < max

\* Line 148: the loop condition i < opt.max_iterations.
LoopCond(it, max) == it < max

\* Line 183: loss += d / (floatval_t)seq->num_items.
AddLoss(l, d, len) == RatAdd(l, Rat(d, len))

ConvergenceTestLeq(l, num, eps) ==
    IF num = 0 THEN {TRUE, FALSE}
    ELSE {~RatLess(eps, RatMul(l, Rat(1, num)))}

ConvergenceTestNoDiv(l, num, eps) ==
    IF num = 0 THEN {TRUE, FALSE}
    ELSE {RatLess(l, eps)}

\* Line 201: loss / N < opt.epsilon.  With N = 0 the quotient is 0.0/0, which
\* the C standard leaves undefined: a NaN whose comparison is false under IEEE
\* semantics, either outcome in a build that assumes finite arithmetic.
ConvergenceTest(l, num, eps) ==
    IF num = 0 THEN {TRUE, FALSE}
    ELSE {RatLess(RatMul(l, Rat(1, num)), eps)}

\* Sum of the values t of the positions t in 1 .. len whose label is f.
RECURSIVE VisitedValue(_, _, _)
VisitedValue(labels, len, f) ==
    IF len = 0 THEN 0
    ELSE VisitedValue(labels, len - 1, f) + (IF labels[len] = f THEN len ELSE 0)

InstanceIndexUnshuffled(p, pos) == pos

\* Line 158: seqs[perm[n]], the instance processed at position n of the epoch.
InstanceIndex(p, pos) == p[pos]

TagWeightsAveraged == wa

\* Line 161: the weight vector handed to batch->tag is w.
TagWeights == [f \in Features |-> RatOfInt(w[f])]

\* Line 148, loop condition true; lines 149-153: loss = 0, shuffle.
BeginEpoch ==
    /\ pc = "loop"
    /\ LoopCond(i, opt.max_iterations)
    /\ loss' = RatOfInt(0)
    /\ perm' \in mt_shuffle(N)
    /\ n' = 0
    /\ pc' = "inst"
    /\ epochs' = epochs + 1
    /\ shuffles' = shuffles + 1
    /\ decoded' = <<>>
    /\ preds' = <<>>
    /\ UNCHANGED <<batch, opt, heap, frees, ret, ptr_w, i, c, viterbi, w, ws, wa,
                   processed, decodes, enums, lastd, everWrong, allWrong,
                   snapshots, lossHist, broke, tagW, applied>>

\* Lines 155-187: one pass of the inner loop body.
ProcessInstance ==
    /\ pc = "inst"
    /\ n < N
    /\ LET idx == InstanceIndex(perm, n)
           seq == batch.seqs[idx]
       IN  \E vit \in tag(seq, viterbi) :
             LET d == diff(seq.labels, vit, seq.num_items)
                 ud == UpdateOnMistake(seq, vit, c)
             IN  /\ viterbi' = vit
                 /\ IF IsMistake(d)
                    THEN /\ w' = ud.w
                         /\ ws' = ud.ws
                         /\ loss' = AddLoss(loss, d, seq.num_items)
                         /\ enums' = enums + 2
                    ELSE UNCHANGED <<w, ws, loss, enums>>
                 /\ lastd' = d
                 /\ c' = AdvanceCounter(c, d)
                 /\ everWrong' = (everWrong \/ d > 0)
                 /\ allWrong' = (allWrong /\ d > 0)
                 /\ decoded' = Append(decoded, idx)
                 /\ preds' = Append(preds, SubSeq(vit, 1, seq.num_items))
                 /\ applied' =
                      [f \in Features |->
                         applied[f]
                         + (IF d > 0
                            THEN VisitedValue(seq.labels, seq.num_items, f)
                                 - VisitedValue(vit, seq.num_items, f)
                            ELSE 0)]
    /\ tagW' = TagWeights
    /\ n' = n + 1
    /\ decodes' = decodes + 1
    /\ processed' = processed + 1
    /\ snapshots' = [f \in Features |-> snapshots[f] + w'[f]]
    /\ UNCHANGED <<batch, opt, pc, heap, frees, ret, ptr_w, i, perm, wa, epochs,
                   shuffles, lossHist, broke>>

\* Lines 189-205 and the ++i of line 148: averaging, then the convergence test.
EndEpoch ==
    /\ pc = "inst"
    /\ n >= N
    /\ wa' = vecasub(veccopy(w), AvgScale(c), ws)
    /\ lossHist' = Append(lossHist, loss)
    /\ \E stop \in ConvergenceTest(loss, N, opt.epsilon) :
         IF stop
         THEN /\ pc' = "break"
              /\ broke' = TRUE
              /\ i' = i
         ELSE /\ pc' = "loop"
              /\ broke' = broke
              /\ i' = i + 1
    /\ UNCHANGED <<batch, opt, heap, frees, ret, ptr_w, n, c, perm, viterbi, w, ws,
                   loss, epochs, processed, decodes, enums, shuffles, lastd,
                   everWrong, allWrong, snapshots, decoded, preds, tagW, applied>>

\* Lines 208-216: after the loop (condition false, or break).
Return ==
    /\ \/ pc = "break"
       \/ pc = "loop" /\ ~LoopCond(i, opt.max_iterations)
    /\ LET st == FreeAll([heap |-> heap, frees |-> frees], ReturnFrees)
       IN  heap' = st.heap /\ frees' = st.frees
    /\ ptr_w' = "wa"
    /\ pc' = "done"
    /\ UNCHANGED <<batch, opt, ret, i, n, c, perm, viterbi, w, ws, wa, loss,
                   obsvars>>

Next ==
    \/ Allocate
    \/ ErrorExit
    \/ BeginEpoch
    \/ ProcessInstance
    \/ EndEpoch
    \/ Return

Spec == Init /\ [][Next]_vars

\* ---- properties ---------------------------------------------------------
Max0(x) == IF x < 0 THEN 0 ELSE x
IsZeroRatVec(v) == \A f \in Features : v[f] = RatOfInt(0)
Succeeded == pc = "done" /\ ret = "0"
\* The buffers were allocated and the call has not failed.
Live == pc \in {"loop", "inst", "break"} \/ Succeeded
\* The averaging step of the epoch started last has run.
AfterAveraging == epochs > 0 /\ Len(lossHist) = epochs

\* C1: a run on an empty batch (N = 0, max_iterations > 1) whose allocations
\* succeed performs exactly one epoch, of loss 0, and returns the all-zero wa
\* with the success status.
C1_ZeroInstanceOneEpoch ==
    (pc = "done" /\ N = 0 /\ opt.max_iterations > 1 /\ \A b \in Buffers : heap[b] # "null")
        => /\ epochs = 1
           /\ lossHist = <<RatOfInt(0)>>
           /\ IsZeroRatVec(wa)
           /\ ret = "0"
           /\ ptr_w = "wa"

\* C2 (as stated): with epsilon = 0 and N > 0, right after an epoch the loop has
\* been left by the convergence test exactly when that epoch's loss is 0.
C2_StopsExactlyOnZeroLoss ==
    (opt.epsilon = RatOfInt(0) /\ N > 0 /\ AfterAveraging /\ pc \in {"loop", "break"})
        => (broke <=> lossHist[Len(lossHist)] = RatOfInt(0))

\* C2 (amended): with epsilon = 0 and N > 0 the convergence test never ends the
\* loop, not even after an epoch of loss 0; a successful run performs exactly
\* max_iterations epochs (none if max_iterations < 0).
C2_EpsilonZeroNeverStopsEarly ==
    (opt.epsilon = RatOfInt(0) /\ N > 0)
        => /\ ~broke
           /\ pc # "break"
           /\ Succeeded => epochs = Max0(opt.max_iterations)

C2_Witness ==
    /\ opt.epsilon = RatOfInt(0) /\ N > 0
    /\ epochs = 2
    /\ lossHist # <<>> /\ lossHist[1] = RatOfInt(0)

\* C3: once c is set, c = k + 1 where k is the number of instances processed so
\* far in the whole run, mispredicted or not, across epochs.
C3_MonotonicCounter == Live => c = processed + 1

C3_Witness ==
    /\ Live /\ epochs = 2 /\ processed = 4 /\ c = 5
    /\ everWrong /\ ~allWrong

\* C4: after the averaging step of every epoch, c * wa[f] equals the sum of the
\* weight snapshots w_0 .. w_(c-1) for every feature f.
C4_TimeAverage ==
    (Live /\ AfterAveraging)
        => \A f \in Features :
              /\ wa[f][2] > 0
              /\ c * wa[f][1] = snapshots[f] * wa[f][2]

C4_Witness ==
    /\ Live /\ AfterAveraging /\ epochs = 2 /\ processed = 4
    /\ everWrong /\ ~allWrong
    /\ \E f \in Features : wa[f][2] = 5

\* C5: a step that processes a mispredicted instance while the counter is c adds
\* G(f) - P(f) to w[f] and c * (G(f) - P(f)) to ws[f] for every feature f, G and
\* P being the summed values of f under the gold and the predicted labels; one
\* instance with gold feature f1 and predicted feature f2 (values 1) processed at
\* c = 1 gives w[f1] = 1, w[f2] = -1, ws[f1] = 1, ws[f2] = -1.
C5_MistakeUpdate ==
    [][(processed' = processed + 1 /\ lastd' > 0)
        => LET seq == batch.seqs[perm[n]]
               G(f) == VisitedValue(seq.labels, seq.num_items, f)
               P(f) == VisitedValue(viterbi', seq.num_items, f)
           IN  /\ \A f \in Features :
                    /\ w'[f] = w[f] + G(f) - P(f)
                    /\ ws'[f] = ws[f] + c * (G(f) - P(f))
               /\ (c = 1 /\ seq.num_items = 1)
                    => /\ w'[seq.labels[1]] = 1 /\ ws'[seq.labels[1]] = 1
                       /\ w'[viterbi'[1]] = -1 /\ ws'[viterbi'[1]] = -1]_vars

C5_Witness ==
    /\ processed = 4 /\ lastd = 2 /\ c = 5
    /\ \E f \in Features : ws[f] > 6

\* C6: the averaging step sets wa[f] = w[f] - ws[f] / c for every feature f from
\* the values w, ws and c have at the end of the epoch and leaves w, ws and c
\* unchanged; for the single-mistake batch this is wa[f1] = 1/2, wa[f2] = -1/2.
C6_AveragingFormula ==
    [][(Len(lossHist') = Len(lossHist) + 1)
        => /\ w' = w /\ ws' = ws /\ c' = c
           /\ c = processed + 1
           /\ \A f \in Features :
                /\ wa'[f][2] > 0
                /\ wa'[f][1] * c = (c * w[f] - ws[f]) * wa'[f][2]
           /\ (N = 1 /\ epochs = 1 /\ lastd = 1 /\ batch.seqs[0].num_items = 1)
                => /\ wa'[batch.seqs[0].labels[1]] = <<1, 2>>
                   /\ wa'[viterbi[1]] = <<-1, 2>>]_vars

C6_Witness ==
    /\ AfterAveraging /\ epochs = 1
    /\ N = 1 /\ lastd = 1 /\ batch.seqs[0].num_items = 1
    /\ wa[batch.seqs[0].labels[1]] = <<1, 2>>
    /\ wa[viterbi[1]] = <<-1, 2>>

\* loss / N < epsilon, for a batch that has instances.
LossRatioBelowEpsilon(l) ==
    N > 0 /\ l[1] * opt.epsilon[2] < opt.epsilon[1] * l[2] * N

\* C7: no epoch follows an epoch whose loss / N is strictly less than epsilon:
\* the loop is left right after it, and wa stays the vector derived at its end.
C7_ConvergenceShortCircuit ==
    \A e \in 1 .. Len(lossHist) :
        LossRatioBelowEpsilon(lossHist[e])
            => /\ e = Len(lossHist) /\ epochs = e
               /\ broke /\ pc \in {"break", "done"}
               /\ \A f \in Features : wa[f][1] * c = (c * w[f] - ws[f]) * wa[f][2]

C7_Witness ==
    /\ Succeeded /\ opt.max_iterations = 2 /\ epochs = 1 /\ broke
    /\ N = 2 /\ everWrong /\ ~allWrong
    /\ opt.epsilon = <<1, 2>>
    /\ ptr_w = "wa"

\* An upper bound on the number of steps the call still takes.
StepsLeft ==
    CASE pc = "done" -> 0
      [] pc \in {"error_exit", "break"} -> 1
      [] pc = "loop" -> 1 + Max0(opt.max_iterations - i) * (N + 2)
      [] pc = "inst" -> (N - n) + 2 + Max0(opt.max_iterations - i - 1) * (N + 2)
      [] pc = "start" -> 2 + Max0(opt.max_iterations) * (N + 2)

\* The guard of some step holds.
CanStep ==
    \/ pc \in {"start", "error_exit", "break"}
    \/ pc = "loop" /\ (LoopCond(i, opt.max_iterations) => mt_shuffle(N) # {})
    \/ pc = "inst" /\ (n < N => (n \in DOMAIN perm /\ perm[n] \in DOMAIN batch.seqs))

\* C8: every run returns (each step lowers the bound StepsLeft on the steps
\* left, and a step is possible until the call has returned); it never starts
\* more than max_iterations epochs, and a successful run that the convergence
\* test did not end has performed exactly max_iterations epochs and processed
\* max_iterations * N instances (max_iterations >= 0).
C8_IterationCap ==
    /\ [][StepsLeft' < StepsLeft]_vars
    /\ [](StepsLeft >= 0 /\ (pc # "done" => CanStep))
    /\ [](epochs <= Max0(opt.max_iterations))
    /\ []((Succeeded /\ ~broke /\ opt.max_iterations >= 0)
            => /\ epochs = opt.max_iterations
               /\ processed = opt.max_iterations * N)

C8_Witness ==
    /\ Succeeded /\ ~broke /\ opt.epsilon = RatOfInt(0) /\ N = 2
    /\ allWrong /\ opt.max_iterations = 2 /\ epochs = 2 /\ processed = 4

\* C9: as long as every decode has returned the gold labels, w and ws are zero,
\* the feature oracle has not been called, every loss is 0 and wa is zero.
C9_NoMistakeStability ==
    ~everWrong
        => /\ w = ZeroVec /\ ws = ZeroVec
           /\ enums = 0
           /\ loss = RatOfInt(0)
           /\ \A e \in 1 .. Len(lossHist) : lossHist[e] = RatOfInt(0)
           /\ IsZeroRatVec(wa)

C9_Witness ==
    /\ ~everWrong /\ Succeeded /\ epochs = 2 /\ processed = 4 /\ ptr_w = "wa"

\* C10: when one of the five allocations fails, no epoch runs, neither the
\* decoder nor the feature oracle is called, the out-parameter is not written,
\* and the call returns out-of-memory with every allocated buffer, wa included,
\* released exactly once.
C10_AllocationFailure ==
    (\E b \in Buffers : heap[b] = "null")
        => /\ ret = "CRFERR_OUTOFMEMORY"
           /\ epochs = 0 /\ decodes = 0 /\ enums = 0 /\ shuffles = 0
           /\ ptr_w = "unset"
           /\ pc \in {"error_exit", "done"}
           /\ pc = "done"
                => \A b \in Buffers :
                      \/ heap[b] = "null" /\ frees[b] = 0
                      \/ heap[b] = "freed" /\ frees[b] = 1

C10_Witness ==
    /\ pc = "done" /\ heap["w"] = "null"
    /\ heap["wa"] = "freed" /\ frees["wa"] = 1
    /\ heap["perm"] = "freed"

\* C11: a returned run whose five allocations succeeded returns success, has
\* released w, ws, perm and viterbi exactly once each, has not released wa and
\* has stored it in the out-parameter; every returned run either has success
\* and the vector, or out-of-memory and no vector.
C11_NormalCompletion ==
    pc = "done"
        => /\ (\A b \in Buffers : heap[b] # "null")
                => /\ ret = "0"
                   /\ \A b \in Buffers \ {"wa"} : heap[b] = "freed" /\ frees[b] = 1
                   /\ heap["wa"] = "live" /\ frees["wa"] = 0
                   /\ ptr_w = "wa"
           /\ \/ ret = "0" /\ ptr_w = "wa" /\ heap["wa"] = "live"
              \/ ret = "CRFERR_OUTOFMEMORY" /\ ptr_w = "unset" /\ heap["wa"] # "live"

C11_Witness ==
    /\ pc = "done" /\ ret = "0" /\ broke /\ epochs = 1 /\ opt.max_iterations = 2
    /\ N = 2 /\ everWrong
    /\ heap["wa"] = "live" /\ heap["w"] = "freed" /\ frees["perm"] = 1
    /\ ptr_w = "wa"

\* The sequence p[0], .., p[k-1].
Prefix(p, k) == [j \in 1 .. k |-> p[j - 1]]

\* C12: in every epoch perm is a permutation of 0 .. N-1, the instances decoded
\* so far in the epoch are perm[0], .., perm[n-1] in this order, and when the
\* epoch ends every index 0 .. N-1 has been decoded exactly once.
C12_ExactlyOncePerEpoch ==
    (Live /\ epochs > 0)
        => /\ DOMAIN perm = 0 .. N - 1
           /\ \A k \in 0 .. N - 1 : \E j \in 0 .. N - 1 : perm[j] = k
           /\ decoded = Prefix(perm, IF AfterAveraging THEN N ELSE n)
           /\ Len(preds) = Len(decoded)
           /\ AfterAveraging
                => /\ decodes = epochs * N
                   /\ \A k \in 0 .. N - 1 :
                        Cardinality({j \in 1 .. Len(decoded) : decoded[j] = k}) = 1

C12_Witness ==
    /\ Live /\ AfterAveraging /\ epochs = 2 /\ N = 2
    /\ perm[0] = 1 /\ perm[1] = 0
    /\ decoded = <<1, 0>>
    /\ decodes = 4

\* C13: every call of the decoder receives the raw weights w, which at that
\* moment hold exactly the updates gold - predicted of all mispredicted instances
\* processed before it in the run; the step applies this instance's whole update
\* before the next decode.
C13_SequentialUpdates ==
    /\ [](Live => w = applied)
    /\ [][(processed' = processed + 1)
            => /\ \A f \in Features : tagW'[f] = <<applied[f], 1>>
               /\ decodes' = decodes + 1
               /\ w' = applied']_vars

C13_Witness ==
    /\ Live /\ epochs = 2 /\ processed = 4 /\ lastd > 0
    /\ \E f \in Features : tagW[f] # RatOfInt(0) /\ tagW[f] # wa[f]
    /\ tagW # [f \in Features |-> RatOfInt(w[f])]

\* The number of positions at which two label sequences differ.
Hamming(x, y) == Cardinality({t \in DOMAIN y : x[t] # y[t]})
\* A common multiple of all instance lengths.
RECURSIVE ProductOf(_)
ProductOf(S) ==
    IF S = {} THEN 1
    ELSE LET x == CHOOSE e \in S : TRUE IN x * ProductOf(S \ {x})
LenMultiple == ProductOf(ItemCounts)
\* LenMultiple times the sum of d / length over the mispredicted instances among
\* the first k decoded in the current epoch.
RECURSIVE EpochLossTimes(_)
EpochLossTimes(k) ==
    IF k = 0 THEN 0
    ELSE LET seq == batch.seqs[decoded[k]]
             d == Hamming(seq.labels, preds[k])
         IN  EpochLossTimes(k - 1) + d * (LenMultiple \div seq.num_items)

\* C14: during and at the end of every epoch the loss equals the sum of
\* d / instance_length over the instances mispredicted so far in this epoch only,
\* d being the Hamming distance of prediction and gold labels; it is 0 when the
\* epoch starts, and the loss recorded for the epoch is this sum.
C14_EpochLoss ==
    (Live /\ epochs > 0)
        => /\ loss[2] > 0
           /\ loss[1] * LenMultiple = EpochLossTimes(Len(decoded)) * loss[2]
           /\ (pc = "inst" /\ n = 0) => loss = RatOfInt(0)
           /\ AfterAveraging => lossHist[Len(lossHist)] = loss

C14_Witness ==
    /\ Live /\ AfterAveraging /\ epochs = 2 /\ N = 2
    /\ lossHist[1] = <<3, 2>> /\ lossHist[2] = <<1, 2>>
    /\ Len(preds) = 2 /\ Len(preds[1]) = 2 /\ Hamming(batch.seqs[decoded[1]].labels, preds[1]) = 1

\* C15: a step that processes an instance whose predicted labels equal the gold
\* labels at every position leaves w, ws, wa and the epoch loss unchanged, does
\* not call the feature oracle, and advances c by exactly 1.
C15_CorrectInstanceFrame ==
    [][(processed' = processed + 1
        /\ \A t \in 1 .. batch.seqs[perm[n]].num_items :
              viterbi'[t] = batch.seqs[perm[n]].labels[t])
        => /\ w' = w /\ ws' = ws /\ wa' = wa
           /\ loss' = loss
           /\ enums' = enums
           /\ c' = c + 1
           /\ UNCHANGED <<i, perm, pc, heap, frees, ret, ptr_w, batch, opt>>]_vars

C15_Witness ==
    /\ Live /\ epochs = 2 /\ processed = 4 /\ lastd = 0 /\ c = 5
    /\ w # ZeroVec /\ loss # RatOfInt(0) /\ enums = 2
    /\ Len(preds[2]) = 2

\* C16: with max_iterations <= 0 and successful allocations no epoch runs: no
\* shuffle, no decoder or feature-oracle call, no averaging; the call returns
\* success and hands the all-zero wa to the caller.
C16_NoIterations ==
    (opt.max_iterations <= 0 /\ Live)
        => /\ epochs = 0 /\ shuffles = 0 /\ decodes = 0 /\ enums = 0
           /\ lossHist = <<>>
           /\ IsZeroRatVec(wa)
           /\ pc \in {"loop", "done"}
           /\ pc = "done" => (ret = "0" /\ ptr_w = "wa" /\ heap["wa"] = "live")

C16_Witness ==
    /\ Succeeded /\ opt.max_iterations = 0 /\ N = 2
    /\ ptr_w = "wa" /\ heap["wa"] = "live" /\ IsZeroRatVec(wa) /\ epochs = 0
====
